---- MODULE Spec2Model ----
(***************************************************************************)
(* The EVM-script codec of the DAO dashboard: goEncodeEvmScript,           *)
(* decodeEvmScript and isEvmScriptValid (src/unnamed/part_001).            *)
(*                                                                         *)
(* Representation.  A JavaScript string is a sequence of one-character     *)
(* strings, so that indexOf, substring, split and the number parsers act   *)
(* on its characters.  A hex string "0x.." that stands for bytes is the    *)
(* sequence of its bytes (two hex characters each).  A BigNumber is        *)
(* [neg, mag] with mag its magnitude in big-endian bytes without leading   *)
(* zero bytes, so that it is of arbitrary width as in the library.         *)
(***************************************************************************)
EXTENDS Integers, Sequences, FiniteSets, TLC

(***************************************************************************)
(* Sequences, strings                                                      *)
(***************************************************************************)
Rep(x, n) == [i \in 1..n |-> x]

Min(a, b) == IF a < b THEN a ELSE b

Max(a, b) == IF a < b THEN b ELSE a

\* String.prototype.indexOf(c): the 0-based index of the first c, or -1.
IndexOf(s, c) ==
    IF \E i \in 1..Len(s) : s[i] = c
    THEN (CHOOSE i \in 1..Len(s) : s[i] = c /\ \A j \in 1..(i-1) : s[j] # c) - 1
    ELSE -1

\* String.prototype.substring(a, b): both indices are clamped to 0..length and
\* swapped when a > b.
Substring(s, a, b) ==
    LET ca == Max(0, Min(a, Len(s)))
        cb == Max(0, Min(b, Len(s)))
        lo == Min(ca, cb)
        hi == Max(ca, cb)
    IN SubSeq(s, lo + 1, hi)

\* String.prototype.split(sep) for a one-character separator: "" splits to [""].
RECURSIVE Split(_, _)
Split(s, sep) ==
    LET k == IndexOf(s, sep)
    IN IF k = -1 THEN <<s>>
       ELSE <<SubSeq(s, 1, k)>> \o Split(SubSeq(s, k + 2, Len(s)), sep)

RECURSIVE Join(_, _)
Join(parts, sep) ==
    IF Len(parts) = 0 THEN <<>>
    ELSE IF Len(parts) = 1 THEN parts[1]
    ELSE parts[1] \o sep \o Join(Tail(parts), sep)

Digits == {"0", "1", "2", "3", "4", "5", "6", "7", "8", "9"}

HexLower == {"a", "b", "c", "d", "e", "f"}

HexUpper == {"A", "B", "C", "D", "E", "F"}

HexChars == Digits \cup HexLower \cup HexUpper

HexVal(c) ==
    CASE c = "0" -> 0 [] c = "1" -> 1 [] c = "2" -> 2 [] c = "3" -> 3
      [] c = "4" -> 4 [] c = "5" -> 5 [] c = "6" -> 6 [] c = "7" -> 7
      [] c = "8" -> 8 [] c = "9" -> 9
      [] c \in {"a", "A"} -> 10 [] c \in {"b", "B"} -> 11
      [] c \in {"c", "C"} -> 12 [] c \in {"d", "D"} -> 13
      [] c \in {"e", "E"} -> 14 [] c \in {"f", "F"} -> 15

HexDigit(n) ==
    CASE n = 0 -> "0" [] n = 1 -> "1" [] n = 2 -> "2" [] n = 3 -> "3"
      [] n = 4 -> "4" [] n = 5 -> "5" [] n = 6 -> "6" [] n = 7 -> "7"
      [] n = 8 -> "8" [] n = 9 -> "9" [] n = 10 -> "a" [] n = 11 -> "b"
      [] n = 12 -> "c" [] n = 13 -> "d" [] n = 14 -> "e" [] n = 15 -> "f"

(***************************************************************************)
(* What a callback does: it returns a value or throws.  go and goSync      *)
(* (@api3/promise-utils) turn the outcome into a GoResult value.           *)
(***************************************************************************)
Returns(v) == [threw |-> FALSE, v |-> v]

Throws == [threw |-> TRUE, v |-> <<>>]

\* A GoResult: success(data), or fail(error).
success(data) == [success |-> TRUE, escaped |-> FALSE, data |-> data]

fail(error) == [success |-> FALSE, escaped |-> FALSE, data |-> error]

\* What is left of a call whose exception nobody caught: the async function's
\* promise is rejected.  No path of the code produces it.
Uncaught == [success |-> FALSE, escaped |-> TRUE, data |-> "exception"]

GoNoCatch(outcome) == IF outcome.threw THEN Uncaught ELSE success(outcome.v)

go(outcome) == IF outcome.threw THEN fail("error") ELSE success(outcome.v)

(***************************************************************************)
(* BigNumber (ethers v5): arbitrary precision                              *)
(***************************************************************************)
BN(neg, mag) == [neg |-> neg, mag |-> mag]

\* mag * m + carry, for a magnitude in big-endian bytes (m and carry at most
\* 10000).
RECURSIVE MulAdd(_, _, _, _)
MulAdd(mag, i, m, carry) ==
    IF i = 0 THEN (IF carry = 0 THEN <<>>
                   ELSE IF carry < 256 THEN <<carry>>
                   ELSE <<carry \div 256, carry % 256>>)
    ELSE LET cur == mag[i] * m + carry
         IN Append(MulAdd(mag, i - 1, m, cur \div 256), cur % 256)

RECURSIVE StripZeros(_)
StripZeros(mag) ==
    IF Len(mag) > 0 /\ mag[1] = 0 THEN StripZeros(Tail(mag)) ELSE mag

\* The number that up to four decimal digits spell.
SmallDecimal(chars) ==
    IF Len(chars) = 0 THEN 0
    ELSE IF Len(chars) = 1 THEN HexVal(chars[1])
    ELSE IF Len(chars) = 2 THEN HexVal(chars[1]) * 10 + HexVal(chars[2])
    ELSE IF Len(chars) = 3 THEN HexVal(chars[1]) * 100 + HexVal(chars[2]) * 10 + HexVal(chars[3])
    ELSE HexVal(chars[1]) * 1000 + HexVal(chars[2]) * 100 + HexVal(chars[3]) * 10
         + HexVal(chars[4])

\* The magnitude that the first n decimal digits spell, four digits at a time.
RECURSIVE ParseDecimal(_, _)
ParseDecimal(chars, n) ==
    IF n <= 4 THEN MulAdd(<<>>, 0, 1, SmallDecimal(SubSeq(chars, 1, n)))
    ELSE LET high == ParseDecimal(chars, n - 4)
         IN IF high = <<>>
            THEN MulAdd(<<>>, 0, 1, SmallDecimal(SubSeq(chars, n - 3, n)))
            ELSE MulAdd(high, Len(high), 10000, SmallDecimal(SubSeq(chars, n - 3, n)))

\* The magnitude that hex digits spell: two digits are a byte.
ParseHex(chars) ==
    LET even == IF Len(chars) % 2 = 1 THEN <<"0">> \o chars ELSE chars
    IN StripZeros([i \in 1..(Len(even) \div 2) |->
                      HexVal(even[2 * i - 1]) * 16 + HexVal(even[2 * i])])

\* BigNumber.from(string): /^-?[0-9]+$/ is decimal, /^-?0x[0-9a-f]*$/i is hex;
\* anything else throws.
BigNumberFromString(chars) ==
    LET neg  == Len(chars) > 0 /\ chars[1] = "-"
        body == IF neg THEN Tail(chars) ELSE chars
        hex  == Len(body) >= 2 /\ body[1] = "0" /\ body[2] \in {"x", "X"}
        hexd == SubSeq(body, 3, Len(body))
    IN IF Len(body) > 0 /\ \A i \in 1..Len(body) : body[i] \in Digits
       THEN LET mag == ParseDecimal(body, Len(body))
            IN Returns(BN(neg /\ mag # <<>>, mag))
       ELSE IF hex /\ (neg => Len(hexd) > 0) /\ \A i \in 1..Len(hexd) : hexd[i] \in HexChars
       THEN LET mag == ParseHex(hexd)
            IN Returns(BN(neg /\ mag # <<>>, mag))
       ELSE Throws

\* Quotient and remainder of a magnitude by 10000, most significant byte first.
RECURSIVE DivTenThousand(_, _, _)
DivTenThousand(mag, i, rem) ==
    IF i > Len(mag) THEN [q |-> <<>>, r |-> rem]
    ELSE LET cur  == rem * 256 + mag[i]
             rest == DivTenThousand(mag, i + 1, cur % 10000)
         IN [q |-> <<cur \div 10000>> \o rest.q, r |-> rest.r]

FourDigits(n) ==
    <<HexDigit(n \div 1000), HexDigit((n \div 100) % 10), HexDigit((n \div 10) % 10),
      HexDigit(n % 10)>>

\* The decimal digits of a magnitude, four at a time, with leading zeros.
RECURSIVE DecimalDigits(_)
DecimalDigits(mag) ==
    IF mag = <<>> THEN <<>>
    ELSE LET d == DivTenThousand(mag, 1, 0)
         IN DecimalDigits(StripZeros(d.q)) \o FourDigits(d.r)

StripZeroDigits(chars) ==
    IF \A i \in 1..Len(chars) : chars[i] = "0" THEN <<"0">>
    ELSE SubSeq(chars, CHOOSE i \in 1..Len(chars) :
                          chars[i] # "0" /\ \A j \in 1..(i - 1) : chars[j] = "0",
                Len(chars))

\* BigNumber.prototype.toString(): base 10.
BigNumberToString(bn) ==
    (IF bn.neg THEN <<"-">> ELSE <<>>) \o StripZeroDigits(DecimalDigits(bn.mag))

\* BigNumber.from(n) for a small non-negative JavaScript number.
RECURSIVE NatMag(_)
NatMag(n) == IF n = 0 THEN <<>> ELSE Append(NatMag(n \div 256), n % 256)

\* BigNumber.prototype.toNumber() for a magnitude of at most three bytes.
RECURSIVE MagNat(_)
MagNat(mag) ==
    IF Len(mag) = 0 THEN 0
    ELSE MagNat(SubSeq(mag, 1, Len(mag) - 1)) * 256 + mag[Len(mag)]

\* utils.hexZeroPad(value, length): left-pads with zero bytes, throws when the
\* value is longer.
hexZeroPad(bytes, length) ==
    IF Len(bytes) > length THEN Throws
    ELSE Returns(Rep(0, length - Len(bytes)) \o bytes)

\* utils.hexDataSlice(data, offset): the bytes from offset on.
hexDataSlice(data, offset) == SubSeq(data, offset + 1, Len(data))

(***************************************************************************)
(* JavaScript values that the codec passes around: [t, v] with t one of    *)
(* "str" (v its characters), "null", "bn" (v a BigNumber), "bytes" (v the  *)
(* bytes of a hex string), "arr" (v the elements) and "obj".               *)
(***************************************************************************)
Str(chars) == [t |-> "str", v |-> chars]

Null == [t |-> "null", v |-> <<>>]

Big(bn) == [t |-> "bn", v |-> bn]

Bytes(b) == [t |-> "bytes", v |-> b]

Arr(elems) == [t |-> "arr", v |-> elems]

Obj == [t |-> "obj", v |-> <<>>]

(***************************************************************************)
(* JSON.parse and JSON.stringify, for the texts the codec meets: an array  *)
(* of string literals (without escapes) and nulls, or the object {}.       *)
(* Every other text of the model's inputs is not JSON.                     *)
(***************************************************************************)
Quote == "\""

\* Parses the elements after "[" or ",": a value, then "," or "]" at the end.
RECURSIVE ParseElements(_, _)
ParseElements(text, acc) ==
    IF Len(text) >= 1 /\ text[1] = Quote
    THEN LET rest  == Tail(text)
             close == IndexOf(rest, Quote)
             after == SubSeq(rest, close + 2, Len(rest))
             elems == Append(acc, Str(SubSeq(rest, 1, close)))
         IN IF close = -1 THEN Throws
            ELSE IF after = <<"]">> THEN Returns(Arr(elems))
            ELSE IF Len(after) >= 1 /\ after[1] = "," THEN ParseElements(Tail(after), elems)
            ELSE Throws
    ELSE IF Len(text) >= 4 /\ SubSeq(text, 1, 4) = <<"n", "u", "l", "l">>
    THEN LET after == SubSeq(text, 5, Len(text))
             elems == Append(acc, Null)
         IN IF after = <<"]">> THEN Returns(Arr(elems))
            ELSE IF Len(after) >= 1 /\ after[1] = "," THEN ParseElements(Tail(after), elems)
            ELSE Throws
    ELSE Throws

JSONparse(text) ==
    IF text = <<"{", "}">> THEN Returns(Obj)
    ELSE IF text = <<"[", "]">> THEN Returns(Arr(<<>>))
    ELSE IF Len(text) >= 1 /\ text[1] = "[" THEN ParseElements(Tail(text), <<>>)
    ELSE Throws

StringifyElement(e) ==
    IF e.t = "str" THEN <<Quote>> \o e.v \o <<Quote>>
    ELSE <<"n", "u", "l", "l">>

JSONstringify(elems) ==
    <<"[">> \o Join([i \in 1..Len(elems) |-> StringifyElement(elems[i])], <<",">>) \o <<"]">>

(***************************************************************************)
(* Addresses (ethers utils.getAddress, utils.isAddress)                    *)
(***************************************************************************)
HexPrefix == <<"0", "x">>

ToLower(c) ==
    CASE c = "A" -> "a" [] c = "B" -> "b" [] c = "C" -> "c"
      [] c = "D" -> "d" [] c = "E" -> "e" [] c = "F" -> "f"
      [] OTHER -> c

\* The EIP-55 casing of 40 lower-case hex characters.  It is decided by the
\* keccak256 hash of the characters: an address without letters is its own
\* checksum form, and the table holds the hash's verdict for the lettered
\* address of the model.
ChecksumCase(lower) ==
    IF lower = Rep("a", 40)
    THEN <<"a", "A", "a", "A", "a", "A", "a", "a", "A", "a", "A", "a", "A", "a", "a", "A", "a", "A", "A", "A", "A", "A", "A", "A", "A", "a", "a", "a", "A", "a", "A", "a", "A", "a", "a", "A", "a", "a", "A", "a">>
    ELSE lower

\* utils.getAddress(value): a string of 40 hex characters after an optional 0x;
\* mixed case must be the checksum casing.  Returns the checksum form.
getAddress(value) ==
    IF value.t # "str" THEN Throws
    ELSE LET s    == value.v
             body == IF Len(s) >= 2 /\ SubSeq(s, 1, 2) = HexPrefix THEN SubSeq(s, 3, Len(s)) ELSE s
             ok   == Len(body) = 40 /\ \A i \in 1..40 : body[i] \in HexChars
             low  == [i \in 1..Len(body) |-> ToLower(body[i])]
             mixed == /\ \E i \in 1..Len(body) : body[i] \in HexUpper
                      /\ \E i \in 1..Len(body) : body[i] \in HexLower
         IN IF ~ok THEN Throws
            ELSE IF mixed /\ ChecksumCase(low) # body THEN Throws
            ELSE Returns(Str(HexPrefix \o ChecksumCase(low)))

isAddress(value) == ~getAddress(value).threw

\* The 20 bytes of an address string that getAddress accepts.
AddressBytes(value) ==
    LET body == SubSeq(getAddress(value).v.v, 3, 42)
    IN [i \in 1..20 |-> HexVal(body[2 * i - 1]) * 16 + HexVal(body[2 * i])]

\* The address string of 20 bytes, as the address coder returns it.
AddressOfBytes(bytes) ==
    LET low == [i \in 1..40 |->
                  IF i % 2 = 1 THEN HexDigit(bytes[(i + 1) \div 2] \div 16)
                  ELSE HexDigit(bytes[i \div 2] % 16)]
    IN Str(HexPrefix \o ChecksumCase(low))

(***************************************************************************)
(* Function signatures and selectors                                       *)
(***************************************************************************)
TAddress == <<"a", "d", "d", "r", "e", "s", "s">>

TUint256 == <<"u", "i", "n", "t", "2", "5", "6">>

TBytes == <<"b", "y", "t", "e", "s">>

\* "execute(address,uint256,bytes)"
SigExecute == <<"e", "x", "e", "c", "u", "t", "e", "(">> \o TAddress \o <<",">> \o TUint256 \o <<",">> \o TBytes \o <<")">>

\* "transfer(address,uint256)"
SigTransfer == <<"t", "r", "a", "n", "s", "f", "e", "r", "(">> \o TAddress \o <<",">> \o TUint256 \o <<")">>

\* "f()": a function without arguments
SigNoArgs == <<"f", "(", ")">>

\* "p(address,address)"
SigPair == <<"p", "(">> \o TAddress \o <<",">> \o TAddress \o <<")">>

\* "t(unit256)": well formed, with a type that does not exist
SigTypo == <<"t", "(", "u", "n", "i", "t", "2", "5", "6", ")">>

\* "transfer(address": no closing parenthesis
SigUnclosed == <<"t", "r", "a", "n", "s", "f", "e", "r", "(">> \o TAddress

Letters ==
    {"a", "b", "c", "d", "e", "f", "g", "h", "i", "j", "k", "l", "m",
     "n", "o", "p", "q", "r", "s", "t", "u", "v", "w", "x", "y", "z",
     "A", "B", "C", "D", "E", "F", "G", "H", "I", "J", "K", "L", "M",
     "N", "O", "P", "Q", "R", "S", "T", "U", "V", "W", "X", "Y", "Z"}

\* utils.FunctionFragment.from(signature) for a string: the signature must be
\* name(parameters) with an identifier for a name; the parameters are checked
\* for their formatting only, not for the types being known.  (Signatures with
\* tuple types, modifiers or a returns clause are not among the model's.)
FunctionFragmentFrom(signature) ==
    LET open  == IndexOf(signature, "(")
        name  == SubSeq(signature, 1, open)
        body  == SubSeq(signature, open + 2, Len(signature) - 1)
    IN IF /\ open # -1
          /\ Len(signature) >= open + 2
          /\ signature[Len(signature)] = ")"
          /\ \A i \in 1..Len(name) : name[i] \in Letters \cup Digits \cup {"$", "_"}
          /\ (Len(name) > 0 => name[1] \notin Digits)
          /\ \A i \in 1..Len(body) : body[i] \in Letters \cup Digits \cup {",", " ", "[", "]"}
       THEN Returns(signature)
       ELSE Throws

\* The first four bytes of keccak256 of the signature's UTF-8 bytes, for the
\* signatures of the model.
Keccak4(signature) ==
    CASE signature = SigExecute  -> <<182, 29, 39, 246>>
      [] signature = SigTransfer -> <<169, 5, 156, 187>>
      [] signature = SigNoArgs   -> <<38, 18, 31, 240>>
      [] signature = SigPair     -> <<47, 94, 117, 14>>
      [] signature = SigTypo     -> <<22, 162, 244, 115>>
      [] OTHER                   -> <<0, 0, 0, 0>>

\* utils.hexDataSlice(utils.keccak256(utils.toUtf8Bytes(functionFragment)), 0, 4)
encodeFunctionSignature(functionFragment) == Keccak4(functionFragment)

encodedExecuteSignature == encodeFunctionSignature(SigExecute)

(***************************************************************************)
(* utils.defaultAbiCoder (ethers v5) for the types address, uint256 and    *)
(* bytes, and for the empty type name, which the library gives its null    *)
(* coder: that coder reads and writes no bytes and its value is null.      *)
(***************************************************************************)
KnownType(type) == type \in {TAddress, TUint256, TBytes, <<>>}

Word(mag) == Rep(0, 32 - Len(mag)) \o mag

\* BigNumber.from(value) on a value of the codec.
BigNumberFrom(value) ==
    IF value.t = "bn" THEN Returns(value.v)
    ELSE IF value.t = "str" THEN BigNumberFromString(value.v)
    ELSE Throws

\* The bytes a coder writes in place for a value (the head of a static type).
CoderEncode(type, value) ==
    IF type = TAddress
    THEN IF getAddress(value).threw THEN Throws
         ELSE Returns(Rep(0, 12) \o AddressBytes(value))
    ELSE IF type = TUint256
    THEN LET n == BigNumberFrom(value)
         IN IF n.threw \/ n.v.neg \/ Len(n.v.mag) > 32 THEN Throws
            ELSE Returns(Word(n.v.mag))
    ELSE IF type = TBytes
    THEN IF value.t # "bytes" THEN Throws
         ELSE Returns(Word(NatMag(Len(value.v))) \o value.v
                      \o Rep(0, (32 - (Len(value.v) % 32)) % 32))
    ELSE IF value.t = "null" THEN Returns(<<>>) ELSE Throws

HeadSize(type) == IF type = <<>> THEN 0 ELSE 32

RECURSIVE SumHeads(_)
SumHeads(types) == IF Len(types) = 0 THEN 0 ELSE HeadSize(types[1]) + SumHeads(Tail(types))

\* The tuple layout: the heads in order (a dynamic value's head is the offset
\* of its tail), then the tails in order.
RECURSIVE EncodeTuple(_, _, _, _, _, _)
EncodeTuple(types, coded, i, headSize, heads, tails) ==
    IF i > Len(types) THEN heads \o tails
    ELSE IF types[i] = TBytes
    THEN EncodeTuple(types, coded, i + 1, headSize,
                     heads \o Word(NatMag(headSize + Len(tails))), tails \o coded[i].v)
    ELSE EncodeTuple(types, coded, i + 1, headSize, heads \o coded[i].v, tails)

\* utils.defaultAbiCoder.encode(types, values)
AbiEncode(types, values) ==
    IF Len(types) # Len(values) THEN Throws
    ELSE IF \E i \in 1..Len(types) : ~KnownType(types[i]) THEN Throws
    ELSE LET coded == [i \in 1..Len(types) |-> CoderEncode(types[i], values[i])]
         IN IF \E i \in 1..Len(types) : coded[i].threw THEN Throws
            ELSE Returns(EncodeTuple(types, coded, 1, SumHeads(types), <<>>, <<>>))

\* A word read as an offset or a length: toNumber() of it.  A word above 2^24
\* is past the end of every script of the model.
WordNumber(word) ==
    LET mag == StripZeros(word)
    IN IF Len(mag) > 3 THEN Throws ELSE Returns(MagNat(mag))

\* What one coder reads at an offset of the data; it throws past the end.
CoderDecode(type, data, offset) ==
    IF type = <<>> THEN Returns(Null)
    ELSE IF offset + 32 > Len(data) THEN Throws
    ELSE LET word == SubSeq(data, offset + 1, offset + 32)
         IN IF type = TUint256 THEN Returns(Big(BN(FALSE, StripZeros(word))))
            ELSE IF type = TAddress
            THEN IF Len(StripZeros(word)) > 20 THEN Throws
                 ELSE Returns(AddressOfBytes(SubSeq(word, 13, 32)))
            ELSE LET at == WordNumber(word)
                 IN IF at.threw \/ at.v + 32 > Len(data) THEN Throws
                    ELSE LET n == WordNumber(SubSeq(data, at.v + 1, at.v + 32))
                         IN IF n.threw \/ at.v + 32 + n.v > Len(data) THEN Throws
                            ELSE Returns(Bytes(SubSeq(data, at.v + 33, at.v + 32 + n.v)))

RECURSIVE DecodeTuple(_, _, _, _, _)
DecodeTuple(types, data, i, offset, acc) ==
    IF i > Len(types) THEN Returns(acc)
    ELSE LET d == CoderDecode(types[i], data, offset)
         IN IF d.threw THEN Throws
            ELSE DecodeTuple(types, data, i + 1, offset + HeadSize(types[i]), Append(acc, d.v))

\* utils.defaultAbiCoder.decode(types, data), every element of the result read.
AbiDecode(types, data) ==
    IF \E i \in 1..Len(types) : ~KnownType(types[i]) THEN Throws
    ELSE DecodeTuple(types, data, 1, 0, <<>>)

(***************************************************************************)
(* The name service behind the provider, and the two conversions of        *)
(* ./ens-name that the codec calls.                                        *)
(***************************************************************************)
\* "0x1111111111111111111111111111111111111111": registered as alice.eth
Addr1 == HexPrefix \o Rep("1", 40)

\* "0xaaaaaaaaaaaaaaaaaaaaaaaaaaaaaaaaaaaaaaaa": lower case, without a name
AddrA == HexPrefix \o Rep("a", 40)

NameAlice == <<"a", "l", "i", "c", "e", ".", "e", "t", "h">>

NameNobody == <<"n", "o", "b", "o", "d", "y", ".", "e", "t", "h">>

\* provider.resolveName(name): the address registered for the name, or null.
resolveName(name) ==
    IF name.t # "str" THEN Throws
    ELSE IF name.v = NameAlice THEN Returns(Str(Addr1))
    ELSE Returns(Null)

\* provider.lookupAddress(address): the name whose record points back at the
\* address, or null.
lookupAddress(address) ==
    IF address.v = Addr1 THEN Returns(Str(NameAlice)) ELSE Returns(Null)

\* convertToAddressOrThrow(provider, ensNameOrAddress): an address is returned
\* as it is; a name is resolved, and the call throws when the provider rejects
\* or knows no address for it.
convertToAddressOrThrow(ensNameOrAddress, rejected) ==
    IF isAddress(ensNameOrAddress) THEN Returns(ensNameOrAddress)
    ELSE IF rejected THEN Throws
    ELSE LET r == resolveName(ensNameOrAddress)
         IN IF r.threw THEN Throws
            ELSE IF r.v.t = "null" THEN Throws
            ELSE Returns(r.v)

\* Whether convertToAddressOrThrow asks the provider.
AsksProvider(ensNameOrAddress) == ~isAddress(ensNameOrAddress)

\* tryConvertToEnsName(provider, address): the name of the address, and the
\* address itself when there is none or the provider rejects.
tryConvertToEnsName(address, rejected) ==
    IF rejected THEN address
    ELSE LET r == lookupAddress(address)
         IN IF r.threw \/ r.v.t = "null" THEN address ELSE r.v

(***************************************************************************)
(* goEncodeEvmScript, step by step                                         *)
(***************************************************************************)
goSync(outcome) == IF outcome.threw THEN fail("error") ELSE success(outcome.v)

\* if (!goX.success) return fail(new EncodedEvmScriptError(field, ..)).  An
\* exception that no go caught leaves the function instead.
Failed(goResult, field) == IF goResult.escaped THEN Uncaught ELSE fail(field)

Fields == {"parameters", "targetSignature", "targetValue", "targetAddress", "generic"}

\* The form parameters must be a JSON array.
goJsonParams(formData) ==
    goSync(LET json == JSONparse(formData.parameters)
           IN IF json.threw THEN Throws
              ELSE IF json.v.t # "arr" THEN Throws
              ELSE Returns(json.v.v))

\* The signature must be a function fragment.
goTargetSignature(formData) == goSync(FunctionFragmentFrom(formData.targetSignature))

NonEmpty(s) == Len(s) > 0

\* The encoder's parameter types: what stands between the first "(" and the
\* first ")", split at the commas, the empty pieces dropped.
EncoderParameterTypes(targetSignature) ==
    SelectSeq(Split(Substring(targetSignature,
                              IndexOf(targetSignature, "(") + 1,
                              IndexOf(targetSignature, ")")),
                    ","),
              NonEmpty)

\* The arity check left out.
ArityNeverDiffers(parameterTypes, targetParameters) == FALSE

ArityDiffers(parameterTypes, targetParameters) == Len(parameterTypes) # Len(targetParameters)

goExtractParameters(targetSignature, targetParameters) ==
    goSync(LET parameterTypes == EncoderParameterTypes(targetSignature)
           IN IF ArityDiffers(parameterTypes, targetParameters) THEN Throws
              ELSE Returns(parameterTypes))

\* array[i]: undefined past the end of the array.
Undefined == [t |-> "undefined", v |-> <<>>]

ElementAt(array, i) == IF i \in 1..Len(array) THEN array[i] ELSE Undefined

\* What the callback of parameter i resolves to, or that it rejects.
EncodeParameter(parameterTypes, targetParameters, i, rejected) ==
    IF parameterTypes[i] # TAddress THEN Returns(ElementAt(targetParameters, i))
    ELSE convertToAddressOrThrow(ElementAt(targetParameters, i), rejected)

\* The values kept in the order in which the promises settle.
PromiseAllPush(values, i, value) ==
    LET first == CHOOSE k \in 1..Len(values) :
                    values[k].t = "unset" /\ \A j \in 1..(k - 1) : values[j].t # "unset"
    IN [values EXCEPT ![first] = value]

\* Promise.all keeps each value at the index of its promise.
PromiseAllSettle(values, i, value) == [values EXCEPT ![i] = value]

\* go(async () => { parameters = await Promise.all(..); return encode(..) })
goEncodeParameters(outcome) == go(outcome)

\* The target address resolved outside go.
goTargetAddressUncaught(formData, rejected) ==
    GoNoCatch(convertToAddressOrThrow(Str(formData.targetAddress), rejected))

goTargetAddress(formData, rejected) ==
    go(convertToAddressOrThrow(Str(formData.targetAddress), rejected))

\* The value parsed without the check of its sign.
goValueAnySign(formData) ==
    goSync(LET parsed == BigNumberFromString(formData.targetValue)
           IN IF parsed.threw THEN Throws ELSE Returns(parsed.v))

\* The value must be a non-negative amount.
goValue(formData) ==
    goSync(LET parsed == BigNumberFromString(formData.targetValue)
           IN IF parsed.threw THEN Throws
              ELSE IF parsed.v.neg THEN Throws
              ELSE Returns(parsed.v))

\* The bytes of a hex string without its 0x prefix.
HexToBytes(chars) ==
    [i \in 1..(Len(chars) \div 2) |-> HexVal(chars[2 * i - 1]) * 16 + HexVal(chars[2 * i])]

\* The length counted in hex characters.
CallDataChars(hexLength) == hexLength

\* callData.substring(2).length / 2: two hex characters are one byte.
CallDataBytes(hexLength) == hexLength \div 2

ScriptTag == <<0, 0, 0, 1>>

goBuildEvmScript(formData, api3Agent, targetAddress, targetValue, encodedTargetParameters) ==
    goSync(LET arguments == AbiEncode(<<TAddress, TUint256, TBytes>>,
                               <<targetAddress, Big(targetValue),
                                 Bytes(encodeFunctionSignature(formData.targetSignature)
                                       \o encodedTargetParameters)>>)
               callData == encodedExecuteSignature \o arguments.v
               callDataLengthInBytes ==
                   hexZeroPad(NatMag(CallDataBytes(2 * Len(callData))), 4)
           IN IF arguments.threw \/ callDataLengthInBytes.threw THEN Throws
              ELSE Returns(ScriptTag
                           \o HexToBytes(SubSeq(api3Agent[formData.type], 3,
                                                Len(api3Agent[formData.type])))
                           \o callDataLengthInBytes.v
                           \o callData))

(***************************************************************************)
(* decodeEvmScript, step by step                                           *)
(***************************************************************************)
\* The execute call's arguments, read past the tag, the agent address with the
\* length, and the selector.
DecodeExecutionParameters(script) ==
    LET evmScriptPayload == hexDataSlice(script, 4)
        callData         == hexDataSlice(evmScriptPayload, 24)
    IN AbiDecode(<<TAddress, TUint256, TBytes>>, hexDataSlice(callData, 4))

\* The decoder's parameter types: what stands between the first "(" and the
\* first ")", split at the commas.
DecoderParameterTypes(targetSignature) ==
    Split(Substring(targetSignature,
                    IndexOf(targetSignature, "(") + 1,
                    IndexOf(targetSignature, ")")),
          ",")

DecodeParameters(parameterTypes, targetCallData) ==
    AbiDecode(parameterTypes, hexDataSlice(targetCallData, 4))

\* What the callback of parameter i resolves to: it never rejects.
DecodeParameter(parameterTypes, decodedParameters, i, rejected) ==
    IF parameterTypes[i] # TAddress THEN decodedParameters[i]
    ELSE tryConvertToEnsName(decodedParameters[i], rejected)

\* stringifyBigNumbersRecursively on a decoded value or an array of them.
stringifyBigNumber(value) ==
    IF value.t = "bn" THEN Str(BigNumberToString(value.v)) ELSE value

stringifyBigNumbersRecursively(values) ==
    [i \in 1..Len(values) |-> stringifyBigNumber(values[i])]

\* A value that no step has set.
Unset == [t |-> "unset", v |-> <<>>]

\* decodeEvmScript's null.
NullScript ==
    [isNull |-> TRUE, targetAddress |-> Unset, value |-> Unset, parameters |-> <<>>]

DecodedEvmScript(targetAddress, value, parameters) ==
    [isNull |-> FALSE, targetAddress |-> targetAddress, value |-> value,
     parameters |-> parameters]

\* What the callback had computed when it ended, returned whether it threw
\* or not.
decodeReturnPartial(succeeded, targetAddress, value, parameters) ==
    DecodedEvmScript(targetAddress, value, parameters)

\* if (goResponse.success) return goResponse.data; else return null.  The
\* locals are what the callback had computed when it ended.
decodeReturn(succeeded, targetAddress, value, parameters) ==
    IF succeeded THEN DecodedEvmScript(targetAddress, value, parameters)
    ELSE NullScript

(***************************************************************************)
(* isEvmScriptValid                                                        *)
(***************************************************************************)
\* The form data that isEvmScriptValid builds from the proposal.
ReencodeFormData(proposal) ==
    [type            |-> proposal.type,
     targetSignature |-> proposal.metadata.targetSignature,
     parameters      |-> JSONstringify(proposal.decodedEvmScript.parameters),
     targetAddress   |-> proposal.decodedEvmScript.targetAddress.v,
     targetValue     |-> BigNumberToString(proposal.decodedEvmScript.value.v)]

\* The comparison with the stored script left out.
ScriptEncodes(result, script) == result.success

\* result.success && result.data === proposal.script
ScriptMatches(result, script) == result.success /\ result.data = script

(***************************************************************************)
(* The inputs: the forms a user submits, the agents, and what a proposal   *)
(* on the chain may hold instead of what the form produced.                *)
(***************************************************************************)
\* The most rejections of provider calls in one behaviour.
MaxRejections == 1

\* The most parameters of a signature of the forms.
MaxParameters == 2

api3Agent == [primary |-> HexPrefix \o Rep("3", 40), secondary |-> HexPrefix \o Rep("4", 40)]

ProposalTypes == {"primary", "secondary"}

TargetSignatures == {SigTransfer, SigNoArgs, SigPair, SigTypo, SigUnclosed}

TargetAddresses == {Addr1, AddrA, NameAlice, NameNobody}

\* 2^256 - 1, the largest uint256, and 2^256
MaxUint256 ==
    <<"1", "1", "5", "7", "9", "2", "0", "8", "9", "2", "3", "7", "3", "1", "6", "1", "9", "5", "4", "2", "3", "5", "7", "0", "9", "8",
      "5", "0", "0", "8", "6", "8", "7", "9", "0", "7", "8", "5", "3", "2", "6", "9", "9", "8", "4", "6", "6", "5", "6", "4", "0", "5",
      "6", "4", "0", "3", "9", "4", "5", "7", "5", "8", "4", "0", "0", "7", "9", "1", "3", "1", "2", "9", "6", "3", "9", "9", "3", "5">>

TwoTo256 ==
    <<"1", "1", "5", "7", "9", "2", "0", "8", "9", "2", "3", "7", "3", "1", "6", "1", "9", "5", "4", "2", "3", "5", "7", "0", "9", "8",
      "5", "0", "0", "8", "6", "8", "7", "9", "0", "7", "8", "5", "3", "2", "6", "9", "9", "8", "4", "6", "6", "5", "6", "4", "0", "5",
      "6", "4", "0", "3", "9", "4", "5", "7", "5", "8", "4", "0", "0", "7", "9", "1", "3", "1", "2", "9", "6", "3", "9", "9", "3", "6">>

TargetValues ==
    {<<"0">>, <<"1", "0", "0", "0">>, <<"-", "1">>, <<"a", "b", "c">>, <<>>,
     <<"0", "x", "1", "0">>, MaxUint256, TwoTo256}

ParameterTexts ==
    {<<"n", "o", "t", "-", "j", "s", "o", "n">>,
     <<"{", "}">>,
     JSONstringify(<<>>),
     JSONstringify(<<Str(<<"1", "0", "0", "0">>)>>),
     JSONstringify(<<Str(Addr1), Str(<<"1", "0", "0", "0">>)>>),
     JSONstringify(<<Str(NameAlice), Str(<<"0", "x", "1", "0">>)>>),
     JSONstringify(<<Str(AddrA), Str(<<"-", "1">>)>>),
     JSONstringify(<<Str(NameAlice), Str(AddrA)>>),
     JSONstringify(<<Str(NameAlice), Str(NameNobody)>>)}

\* The calls that encode: a signature with parameters that fit it.
ValidCalls ==
    {<<SigTransfer, JSONstringify(<<Str(Addr1), Str(<<"1", "0", "0", "0">>)>>)>>,
     <<SigTransfer, JSONstringify(<<Str(NameAlice), Str(<<"0", "x", "1", "0">>)>>)>>,
     <<SigNoArgs, JSONstringify(<<>>)>>,
     <<SigPair, JSONstringify(<<Str(NameAlice), Str(AddrA)>>)>>}

\* How many of type, target address and value are not the plain ones.
Varied(data) ==
    (IF data.type = "primary" THEN 0 ELSE 1)
    + (IF data.targetAddress = Addr1 THEN 0 ELSE 1)
    + (IF data.targetValue = <<"0">> THEN 0 ELSE 1)

\* The forms of the model: every signature with every parameter text, with at
\* most one of type, target address and value varied, or with an address and a
\* value that both fail.
FormData ==
    {data \in [type : ProposalTypes, targetSignature : TargetSignatures,
               targetAddress : TargetAddresses, targetValue : TargetValues,
               parameters : ParameterTexts] :
        \/ Varied(data) <= 1
        \/ /\ data.type = "primary"
           /\ data.targetAddress = NameNobody
           /\ data.targetValue = <<"-", "1">>}

\* How a stored proposal may differ from what the form produced: a script cut
\* below its header, a script cut inside its call data, another agent in the
\* header, a metadata signature of other types.
Alterations == {"header", "calldata", "agent", "signature"}

AlteredScript(script, how) ==
    CASE how = "header"   -> SubSeq(script, 1, 10)
      [] how = "calldata" -> SubSeq(script, 1, Len(script) - 40)
      [] how = "agent"    -> [script EXCEPT ![5] = 255 - script[5]]
      [] OTHER            -> script

AlteredSignature(targetSignature, how) ==
    IF how # "signature" THEN targetSignature
    ELSE IF targetSignature = SigTransfer THEN SigPair
    ELSE SigTransfer

(***************************************************************************)
(* useLoadAllProposals and useReloadActiveProposalsOnMinedBlock: the        *)
(* proposals of the chain data, keyed by vote id under each voting type.    *)
(* A vote id is a BigNumber object: its number and the call that made it,   *)
(* as two objects of the same number are not the same object.               *)
(***************************************************************************)
\* The most votes the convenience contract reports open for a type.
MaxOpenVotes == 6

\* The most proposals of a type that useLoadAllProposals finds.
MaxStored == 1

CHUNKS_SIZE == 5

\* const types = ['primary', 'secondary']
votingTypes == <<"primary", "secondary">>

VoteNumbers == 0..MaxOpenVotes

VoteId(number, madeBy) == [number |-> number, madeBy |-> madeBy]

\* A slot of a map without a proposal, and what a selector returns for it.
NoEntry == [present |-> FALSE, hasVoteId |-> FALSE, voteId |-> VoteId(0, "none"),
            type |-> "none", open |-> FALSE, from |-> "none"]

\* getProposals: the proposals of the start votes, each with the type given.
getProposals(startVoteProposals, type, from) ==
    [i \in 1..Len(startVoteProposals) |->
        [present |-> TRUE, hasVoteId |-> TRUE, voteId |-> startVoteProposals[i],
         type |-> type, open |-> TRUE, from |-> from]]

\* keyBy(proposals, 'voteId'): the proposals under the text of their vote id.
keyBy(list) ==
    [number \in VoteNumbers |->
        IF \E i \in 1..Len(list) : list[i].voteId.number = number
        THEN list[CHOOSE i \in 1..Len(list) :
                    /\ list[i].voteId.number = number
                    /\ \A j \in (i + 1)..Len(list) : list[j].voteId.number # number]
        ELSE NoEntry]

NoProposals == [loaded |-> FALSE, primary |-> keyBy(<<>>), secondary |-> keyBy(<<>>)]

\* The vote ids 0 .. count - 1, as one call returns them.
VoteIds(count, madeBy) == [i \in 1..count |-> VoteId(i - 1, madeBy)]

\* What useLoadAllProposals stores: the proposals of both types.
LoadedProposals(primaryCount, secondaryCount) ==
    [loaded    |-> TRUE,
     primary   |-> keyBy(getProposals(VoteIds(primaryCount, "load"), "primary", "load")),
     secondary |-> keyBy(getProposals(VoteIds(secondaryCount, "load"), "secondary", "load"))]

\* openProposalIdsSelector: the vote ids of the open proposals of a type, none
\* while the proposals are not loaded.
openProposalIdsSelector(state, type) ==
    IF ~state.loaded THEN <<>>
    ELSE LET IsOpen(number) == state[type][number].present /\ state[type][number].open
             count == Cardinality({number \in VoteNumbers : IsOpen(number)})
         IN [i \in 1..count |->
                state[type][CHOOSE number \in VoteNumbers :
                               /\ IsOpen(number)
                               /\ Cardinality({m \in VoteNumbers : IsOpen(m) /\ m < number})
                                    = i - 1].voteId]

\* proposalDetailsSelector: the proposal of the type under the id, if any.
proposalDetailsSelector(state, type, id) ==
    IF ~state.loaded THEN NoEntry ELSE state[type][id.number]

\* difference(array, values): the elements of array that are none of values,
\* compared as === compares them.
difference(array, values) ==
    LET Other(x) == ~\E j \in 1..Len(values) : values[j] = x
    IN SelectSeq(array, Other)

\* chunk(array, size)
chunk(array, size) ==
    [j \in 1..((Len(array) + size - 1) \div size) |->
        SubSeq(array, (j - 1) * size + 1, Min(j * size, Len(array)))]

\* { ...proposalDetailsSelector(proposals, type, id)!, yea, nay, executed }:
\* the fields of the stored proposal, none of them if there is none.
UpdatedProposal(state, type, id) ==
    LET details == proposalDetailsSelector(state, type, id)
    IN IF details.present THEN [details EXCEPT !.from = "updated"]
       ELSE [NoEntry EXCEPT !.present = TRUE, !.from = "updated"]

\* proposals.primary[proposal.voteId.toString()] = proposal, for the first
\* count proposals of the chunk.
WriteChunk(map, loadedChunk, count) ==
    [number \in VoteNumbers |->
        IF \E i \in 1..count : loadedChunk[i].voteId.number = number
        THEN loadedChunk[CHOOSE i \in 1..count :
                            /\ loadedChunk[i].voteId.number = number
                            /\ \A j \in (i + 1)..count : loadedChunk[j].voteId.number # number]
        ELSE map[number]]

\* updateState: the recipe returns the state as it is while the proposals are
\* not loaded, and else stores every proposal of the chunk; voteId.toString()
\* of a proposal without a vote id throws, and the draft is dropped.
updateState(state, loadedChunk) ==
    IF ~state.loaded THEN Returns(state)
    ELSE IF \E i \in 1..Len(loadedChunk) : ~loadedChunk[i].hasVoteId THEN Throws
    ELSE Returns([state EXCEPT !.primary = WriteChunk(state.primary, loadedChunk,
                                                      Len(loadedChunk))])

\* A loader of a type: its place, the chunks it has still to load, and the
\* vote ids it has passed to updateState with the proposals loaded.
LoaderIdle == [pc |-> "idle", chunks |-> <<>>, written |-> {}]

LoadersIdle ==
    [type \in {"primary", "secondary"} |-> [new |-> LoaderIdle, old |-> LoaderIdle]]

\* The loader started: with nothing to load it ends at once.
LoaderStarted(chunks) ==
    [pc |-> IF chunks = <<>> THEN "done" ELSE "loading", chunks |-> chunks, written |-> {}]

ReloadIdle == [pc |-> "idle", snapshot |-> NoProposals]

(***************************************************************************)
(* The state                                                               *)
(***************************************************************************)
VARIABLES
    formData,    \* the form data the user submitted
    enc,         \* the goEncodeEvmScript call: its place, locals and result
    formCall,    \* the finished call of the form, as the proposal was created
    proposal,    \* the proposal: type, script, metadata, decodedEvmScript
    dec,         \* the decodeEvmScript call: its place, locals and result
    valid,       \* the isEvmScriptValid call: its place and returned value
    rejections,  \* the provider calls rejected so far
    proposals,   \* the proposals of the chain data
    reload,      \* reloadActiveProposals: its place and the proposals it closed over
    loaders      \* loadNewProposals and loadOldProposals of each type

hookVars == <<proposals, reload, loaders>>

vars == <<formData, enc, formCall, proposal, dec, valid, rejections, proposals, reload, loaders>>

NoFormData ==
    [type |-> "primary", targetSignature |-> <<>>, targetAddress |-> <<>>,
     targetValue |-> <<>>, parameters |-> <<>>]

EncIdle ==
    [pc |-> "idle", caller |-> "none", formData |-> NoFormData,
     targetParameters |-> <<>>, parameterTypes |-> <<>>, pending |-> {},
     parameters |-> <<>>, order |-> <<>>, encodedTargetParameters |-> <<>>,
     steps |-> <<>>, result |-> fail("none")]

NoProposal ==
    [stage |-> "none", altered |-> "no", type |-> "primary", script |-> <<>>,
     metadata |-> [targetSignature |-> <<>>], decodedEvmScript |-> NullScript]

DecIdle ==
    [pc |-> "idle", executionParameters |-> <<>>, targetContractAddress |-> Unset,
     value |-> Unset, parameterTypes |-> <<>>, decodedParameters |-> <<>>,
     pending |-> {}, parameters |-> <<>>, order |-> <<>>, failedAt |-> "none",
     result |-> NullScript]

ValidIdle == [pc |-> "idle", value |-> FALSE]

Init ==
    /\ formData = NoFormData
    /\ enc = EncIdle
    /\ formCall = EncIdle
    /\ proposal = NoProposal
    /\ dec = DecIdle
    /\ valid = ValidIdle
    /\ rejections = 0
    /\ proposals = NoProposals
    /\ reload = ReloadIdle
    /\ loaders = LoadersIdle

(***************************************************************************)
(* goEncodeEvmScript as a process: the synchronous steps up to the fan-out *)
(* of the parameters' resolutions, each resolution settling on its own,    *)
(* the continuation that encodes the parameters, and the continuation of   *)
(* the target address' resolution that ends the call.                      *)
(***************************************************************************)
EncEnd(call, steps, result) ==
    [call EXCEPT !.pc = "done", !.pending = {}, !.steps = call.steps \o steps,
                 !.result = result]

\* The call up to its first await.
goEncodeEvmScript(data, caller) ==
    LET call   == [EncIdle EXCEPT !.caller = caller, !.formData = data]
        json   == goJsonParams(data)
        parsed == [call EXCEPT !.targetParameters = json.data]
        sig    == goTargetSignature(data)
        ext    == goExtractParameters(data.targetSignature, json.data)
    IN IF ~json.success
       THEN EncEnd(call, <<"goJsonParams">>, Failed(json, "parameters"))
       ELSE IF ~sig.success
       THEN EncEnd(parsed, <<"goJsonParams", "goTargetSignature">>,
                   Failed(sig, "targetSignature"))
       ELSE IF ~ext.success
       THEN EncEnd(parsed, <<"goJsonParams", "goTargetSignature", "goExtractParameters">>,
                   Failed(ext, "parameters"))
       ELSE [parsed EXCEPT
               !.pc = "parameters",
               !.parameterTypes = ext.data,
               !.pending = 1..Len(ext.data),
               !.parameters = [i \in 1..Len(ext.data) |-> Unset],
               !.steps = <<"goJsonParams", "goTargetSignature", "goExtractParameters">>]

\* The user submits the form.
SubmitForm(data) ==
    /\ enc.pc = "idle"
    /\ formData' = data
    /\ enc' = goEncodeEvmScript(data, "form")
    /\ UNCHANGED <<formCall, proposal, dec, valid, rejections, hookVars>>

\* The callback of parameter i settles.  A rejection rejects Promise.all, and
\* with it the callback of goEncodeParameters.
ResolveParameter(i, rejected) ==
    /\ enc.pc = "parameters"
    /\ i \in enc.pending
    /\ rejected => /\ rejections < MaxRejections
                   /\ enc.parameterTypes[i] = TAddress
                   /\ AsksProvider(ElementAt(enc.targetParameters, i))
    /\ LET settled == EncodeParameter(enc.parameterTypes, enc.targetParameters, i, rejected)
       IN enc' = IF settled.threw
                 THEN EncEnd(enc, <<"goEncodeParameters">>,
                             Failed(goEncodeParameters(Throws), "parameters"))
                 ELSE [enc EXCEPT !.pending = enc.pending \ {i},
                                  !.order = Append(enc.order, i),
                                  !.parameters = PromiseAllSettle(enc.parameters, i, settled.v)]
    /\ rejections' = IF rejected THEN rejections + 1 ELSE rejections
    /\ UNCHANGED <<formData, formCall, proposal, dec, valid, hookVars>>

\* All callbacks have settled: the parameters are encoded, and the target
\* address is sent to be resolved.
EncodeParameters ==
    /\ enc.pc = "parameters"
    /\ enc.pending = {}
    /\ LET encoded == goEncodeParameters(AbiEncode(enc.parameterTypes, enc.parameters))
       IN enc' = IF ~encoded.success
                 THEN EncEnd(enc, <<"goEncodeParameters">>, Failed(encoded, "parameters"))
                 ELSE [enc EXCEPT !.pc = "targetAddress",
                                  !.encodedTargetParameters = encoded.data,
                                  !.steps = enc.steps \o <<"goEncodeParameters">>]
    /\ UNCHANGED <<formData, formCall, proposal, dec, valid, rejections, hookVars>>

\* The value checked before the target address' resolution is looked at.
ResolveTargetAddressValueFirst(rejected) ==
    /\ enc.pc = "targetAddress"
    /\ rejected => /\ rejections < MaxRejections
                   /\ AsksProvider(Str(enc.formData.targetAddress))
    /\ LET address == goTargetAddress(enc.formData, rejected)
           amount  == goValue(enc.formData)
           script  == goBuildEvmScript(enc.formData, api3Agent, address.data, amount.data,
                                       enc.encodedTargetParameters)
       IN enc' = IF ~amount.success
                 THEN EncEnd(enc, <<"goValue">>, Failed(amount, "targetValue"))
                 ELSE IF ~address.success
                 THEN EncEnd(enc, <<"goValue", "goTargetAddress">>,
                             Failed(address, "targetAddress"))
                 ELSE IF ~script.success
                 THEN EncEnd(enc, <<"goValue", "goTargetAddress", "goBuildEvmScript">>,
                             Failed(script, "generic"))
                 ELSE EncEnd(enc, <<"goValue", "goTargetAddress", "goBuildEvmScript">>,
                             success(script.data))
    /\ rejections' = IF rejected THEN rejections + 1 ELSE rejections
    /\ UNCHANGED <<formData, formCall, proposal, dec, valid, hookVars>>

\* The target address' resolution settles; the value is checked and the script
\* is built.
ResolveTargetAddress(rejected) ==
    /\ enc.pc = "targetAddress"
    /\ rejected => /\ rejections < MaxRejections
                   /\ AsksProvider(Str(enc.formData.targetAddress))
    /\ LET address == goTargetAddress(enc.formData, rejected)
           amount  == goValue(enc.formData)
           script  == goBuildEvmScript(enc.formData, api3Agent, address.data, amount.data,
                                       enc.encodedTargetParameters)
       IN enc' = IF ~address.success
                 THEN EncEnd(enc, <<"goTargetAddress">>, Failed(address, "targetAddress"))
                 ELSE IF ~amount.success
                 THEN EncEnd(enc, <<"goTargetAddress", "goValue">>,
                             Failed(amount, "targetValue"))
                 ELSE IF ~script.success
                 THEN EncEnd(enc, <<"goTargetAddress", "goValue", "goBuildEvmScript">>,
                             Failed(script, "generic"))
                 ELSE EncEnd(enc, <<"goTargetAddress", "goValue", "goBuildEvmScript">>,
                             success(script.data))
    /\ rejections' = IF rejected THEN rejections + 1 ELSE rejections
    /\ UNCHANGED <<formData, formCall, proposal, dec, valid, hookVars>>

\* The form's script becomes a proposal, with the form's signature for its
\* metadata.
CreateProposal ==
    /\ enc.pc = "done"
    /\ enc.caller = "form"
    /\ enc.result.success
    /\ proposal.stage = "none"
    /\ proposal' = [NoProposal EXCEPT
                      !.stage = "stored",
                      !.type = enc.formData.type,
                      !.script = enc.result.data,
                      !.metadata = [targetSignature |-> enc.formData.targetSignature]]
    /\ formCall' = enc
    /\ UNCHANGED <<formData, enc, dec, valid, rejections, hookVars>>

\* A proposal on the chain is what its creator sent, which need not be what
\* the form produces.
AlterProposal(how) ==
    /\ proposal.stage = "stored"
    /\ proposal.altered = "no"
    /\ dec.pc = "idle"
    /\ proposal' = [proposal EXCEPT
                      !.altered = how,
                      !.script = AlteredScript(proposal.script, how),
                      !.metadata = [targetSignature |->
                                      AlteredSignature(proposal.metadata.targetSignature, how)]]
    /\ UNCHANGED <<formData, enc, formCall, dec, valid, rejections, hookVars>>

(***************************************************************************)
(* decodeEvmScript as a process: everything runs inside one go, so a throw *)
(* at any step ends the call with null.                                    *)
(***************************************************************************)
DecEnd(call, failedAt, result) ==
    [call EXCEPT !.pc = "done", !.pending = {}, !.failedAt = failedAt, !.result = result]

\* The call up to its first await: the lookup of the target address' name.
DecodeEvmScript ==
    /\ proposal.stage = "stored"
    /\ dec.pc = "idle"
    /\ LET executionParameters == DecodeExecutionParameters(proposal.script)
       IN dec' = IF executionParameters.threw
                 THEN DecEnd(dec, "executionParameters",
                             decodeReturn(FALSE, dec.targetContractAddress, dec.value,
                                          dec.parameters))
                 ELSE [dec EXCEPT !.pc = "targetAddress",
                                  !.executionParameters = executionParameters.v]
    /\ UNCHANGED <<formData, enc, formCall, proposal, valid, rejections, hookVars>>

\* The lookup settles; the inner call's parameters are decoded and their
\* lookups are sent.
LookupTargetAddress(rejected) ==
    /\ dec.pc = "targetAddress"
    /\ rejected => rejections < MaxRejections
    /\ LET targetContractAddress == tryConvertToEnsName(dec.executionParameters[1], rejected)
           value                 == dec.executionParameters[2]
           targetCallData        == dec.executionParameters[3].v
           parameterTypes        == DecoderParameterTypes(proposal.metadata.targetSignature)
           decodedParameters     == DecodeParameters(parameterTypes, targetCallData)
           locals == [dec EXCEPT !.targetContractAddress = targetContractAddress,
                                 !.value = value,
                                 !.parameterTypes = parameterTypes]
       IN dec' = IF decodedParameters.threw
                 THEN DecEnd(locals, "decodedParameters",
                             decodeReturn(FALSE, targetContractAddress, value, dec.parameters))
                 ELSE [locals EXCEPT
                         !.pc = "parameters",
                         !.decodedParameters = decodedParameters.v,
                         !.pending = 1..Len(parameterTypes),
                         !.parameters = [i \in 1..Len(parameterTypes) |-> Unset]]
    /\ rejections' = IF rejected THEN rejections + 1 ELSE rejections
    /\ UNCHANGED <<formData, enc, formCall, proposal, valid, hookVars>>

\* The callback of parameter i settles.
LookupParameter(i, rejected) ==
    /\ dec.pc = "parameters"
    /\ i \in dec.pending
    /\ rejected => /\ rejections < MaxRejections
                   /\ dec.parameterTypes[i] = TAddress
    /\ dec' = [dec EXCEPT
                 !.pending = dec.pending \ {i},
                 !.order = Append(dec.order, i),
                 !.parameters = PromiseAllSettle(dec.parameters, i,
                                    DecodeParameter(dec.parameterTypes, dec.decodedParameters,
                                                    i, rejected))]
    /\ rejections' = IF rejected THEN rejections + 1 ELSE rejections
    /\ UNCHANGED <<formData, enc, formCall, proposal, valid, hookVars>>

\* All callbacks have settled: the call returns the decoded fields.
DecodeReturn ==
    /\ dec.pc = "parameters"
    /\ dec.pending = {}
    /\ dec' = DecEnd(dec, "none",
                     decodeReturn(TRUE, dec.targetContractAddress, dec.value,
                                  stringifyBigNumbersRecursively(dec.parameters)))
    /\ UNCHANGED <<formData, enc, formCall, proposal, valid, rejections, hookVars>>

\* The proposal holds what decodeEvmScript returned.
StoreDecoded ==
    /\ dec.pc = "done"
    /\ proposal.stage = "stored"
    /\ proposal' = [proposal EXCEPT !.stage = "decoded", !.decodedEvmScript = dec.result]
    /\ UNCHANGED <<formData, enc, formCall, dec, valid, rejections, hookVars>>

(***************************************************************************)
(* isEvmScriptValid as a process: it returns false at once without a       *)
(* decoded script, and else awaits goEncodeEvmScript on the decoded fields.*)
(***************************************************************************)
IsEvmScriptValid ==
    /\ proposal.stage = "decoded"
    /\ valid.pc = "idle"
    /\ enc.pc = "done"
    /\ IF proposal.decodedEvmScript.isNull
       THEN /\ valid' = [pc |-> "done", value |-> FALSE]
            /\ enc' = enc
       ELSE /\ valid' = [pc |-> "encoding", value |-> FALSE]
            /\ enc' = goEncodeEvmScript(ReencodeFormData(proposal), "isEvmScriptValid")
    /\ UNCHANGED <<formData, formCall, proposal, dec, rejections, hookVars>>

\* The awaited call has ended: an exception out of it leaves isEvmScriptValid
\* too, a result is compared with the stored script.
IsEvmScriptValidReturn ==
    /\ valid.pc = "encoding"
    /\ enc.pc = "done"
    /\ enc.caller = "isEvmScriptValid"
    /\ valid' = IF enc.result.escaped
                THEN [pc |-> "threw", value |-> FALSE]
                ELSE [pc |-> "done", value |-> ScriptMatches(enc.result, proposal.script)]
    /\ UNCHANGED <<formData, enc, formCall, proposal, dec, rejections, hookVars>>

Next ==
    \/ \E data \in FormData : SubmitForm(data)
    \/ \E i \in 1..MaxParameters, rejected \in BOOLEAN : ResolveParameter(i, rejected)
    \/ EncodeParameters
    \/ \E rejected \in BOOLEAN : ResolveTargetAddress(rejected)
    \/ CreateProposal
    \/ \E how \in Alterations : AlterProposal(how)
    \/ DecodeEvmScript
    \/ \E rejected \in BOOLEAN : LookupTargetAddress(rejected)
    \/ \E i \in 1..MaxParameters, rejected \in BOOLEAN : LookupParameter(i, rejected)
    \/ DecodeReturn
    \/ StoreDecoded
    \/ IsEvmScriptValid
    \/ IsEvmScriptValidReturn

Spec == Init /\ [][Next]_vars

(***************************************************************************)
(* The hooks as processes.  reloadActiveProposals asks for the open vote   *)
(* ids of each type in turn and starts the two loaders of the type without *)
(* awaiting them, so the loaders of both types run interleaved; a loader   *)
(* awaits the chain's data of a chunk and then passes it to updateState.   *)
(***************************************************************************)
\* useLoadAllProposals: the proposals of both types are stored.
LoadAllProposals(primaryCount, secondaryCount) ==
    /\ ~proposals.loaded
    /\ proposals' = LoadedProposals(primaryCount, secondaryCount)
    /\ UNCHANGED <<formData, enc, formCall, proposal, dec, valid, rejections, reload, loaders>>

\* A block is mined: reloadActiveProposals runs with the proposals of its
\* closure, up to its first await.
ReloadActiveProposals ==
    /\ reload.pc = "idle"
    /\ reload' = [pc |-> votingTypes[1], snapshot |-> proposals]
    /\ UNCHANGED <<formData, enc, formCall, proposal, dec, valid, rejections, proposals,
                   loaders>>

\* getOpenVoteIds of the type answers: both loaders of the type start, and the
\* loop goes on to the next type.
OpenVoteIds(count) ==
    /\ reload.pc \in {"primary", "secondary"}
    /\ LET type            == reload.pc
           previousVoteIds == openProposalIdsSelector(reload.snapshot, type)
           currentVoteIds  == VoteIds(count, "getOpenVoteIds")
           newVoteIds      == difference(currentVoteIds, previousVoteIds)
           oldVoteIds      == difference(currentVoteIds, previousVoteIds)
       IN /\ loaders' = [loaders EXCEPT
                           ![type] = [new |-> LoaderStarted(chunk(newVoteIds, CHUNKS_SIZE)),
                                      old |-> LoaderStarted(chunk(oldVoteIds, CHUNKS_SIZE))]]
          /\ reload' = [reload EXCEPT !.pc = IF type = votingTypes[1] THEN votingTypes[2] ELSE "done"]
    /\ UNCHANGED <<formData, enc, formCall, proposal, dec, valid, rejections, proposals>>

\* The loader after a chunk: the rest of its chunks, and what it has written.
LoaderAfter(loader, stored, threw) ==
    [pc      |-> IF threw THEN "threw"
                 ELSE IF Len(loader.chunks) = 1 THEN "done" ELSE "loading",
     chunks  |-> Tail(loader.chunks),
     written |-> IF stored
                 THEN loader.written
                        \cup {Head(loader.chunks)[i].number : i \in 1..Len(Head(loader.chunks))}
                 ELSE loader.written]

\* loadNewProposals: the proposals of a chunk of start votes are loaded and
\* passed to updateState.
LoadNewChunk(type) ==
    /\ loaders[type].new.pc = "loading"
    /\ LET chunkIds    == Head(loaders[type].new.chunks)
           startVotes  == [i \in 1..Len(chunkIds) |-> VoteId(chunkIds[i].number, "queryFilter")]
           loadedChunk == getProposals(startVotes, type, "new")
           updated     == updateState(proposals, loadedChunk)
       IN /\ proposals' = IF updated.threw THEN proposals ELSE updated.v
          /\ loaders' = [loaders EXCEPT
                           ![type].new = LoaderAfter(loaders[type].new,
                                                     proposals.loaded /\ ~updated.threw,
                                                     updated.threw)]
    /\ UNCHANGED <<formData, enc, formCall, proposal, dec, valid, rejections, reload>>

\* loadOldProposals: the vote data of a chunk of ids are loaded, put over the
\* proposals of the closure and passed to updateState.
LoadOldChunk(type) ==
    /\ loaders[type].old.pc = "loading"
    /\ LET chunkIds         == Head(loaders[type].old.chunks)
           updatedProposals == [i \in 1..Len(chunkIds) |->
                                   UpdatedProposal(reload.snapshot, type, chunkIds[i])]
           updated          == updateState(proposals, updatedProposals)
       IN /\ proposals' = IF updated.threw THEN proposals ELSE updated.v
          /\ loaders' = [loaders EXCEPT
                           ![type].old = LoaderAfter(loaders[type].old,
                                                     proposals.loaded /\ ~updated.threw,
                                                     updated.threw)]
    /\ UNCHANGED <<formData, enc, formCall, proposal, dec, valid, rejections, reload>>

NextReload ==
    \/ \E primaryCount \in 0..MaxStored, secondaryCount \in 0..MaxStored :
          LoadAllProposals(primaryCount, secondaryCount)
    \/ ReloadActiveProposals
    \/ \E count \in 0..MaxOpenVotes : OpenVoteIds(count)
    \/ \E type \in {"primary", "secondary"} : LoadNewChunk(type)
    \/ \E type \in {"primary", "secondary"} : LoadOldChunk(type)

SpecReload == Init /\ [][NextReload]_vars

(***************************************************************************)
(* The claims                                                              *)
(***************************************************************************)
\* The address a string stands for: the address itself in its checksum form,
\* or the address registered for the name; a string that is neither stands
\* for itself.
Canonical(value) ==
    IF value.t # "str" THEN value
    ELSE IF isAddress(value) THEN getAddress(value).v
    ELSE IF resolveName(value).v.t = "str" THEN getAddress(resolveName(value).v).v
    ELSE value

SameAddress(a, b) == Canonical(a) = Canonical(b)

\* Two parameter values are the same under a type: the same address, the same
\* number, or the same string.
SameParameter(type, a, b) ==
    IF a.t # "str" \/ b.t # "str" THEN a.t = b.t
    ELSE IF type = TAddress THEN SameAddress(a, b)
    ELSE IF type = TUint256 /\ ~BigNumberFromString(a.v).threw /\ ~BigNumberFromString(b.v).threw
    THEN BigNumberFromString(a.v).v = BigNumberFromString(b.v).v
    ELSE a.v = b.v

\* The decoded script says what the form said.
DecodedAsSubmitted(decoded, data) ==
    LET types  == EncoderParameterTypes(data.targetSignature)
        params == JSONparse(data.parameters).v.v
    IN /\ ~decoded.isNull
       /\ SameAddress(decoded.targetAddress, Str(data.targetAddress))
       /\ decoded.value.v = BigNumberFromString(data.targetValue).v
       /\ Len(decoded.parameters) = Len(params)
       /\ \A i \in 1..Len(params) :
             SameParameter(types[i], decoded.parameters[i], params[i])

\* C1: round-trip law.  When the provider answers every call, the script that
\* goEncodeEvmScript returned for a form, decoded with the form's signature for
\* its metadata, gives a non-null decoded script whose target address, value
\* and parameters are those of the form, names and addresses taken for the
\* addresses they stand for -- for signatures without parameters too.
RoundTripLaw ==
    (proposal.stage = "decoded" /\ proposal.altered = "no" /\ rejections = 0)
        => DecodedAsSubmitted(proposal.decodedEvmScript, formData)

\* C2: idempotence.  When the provider answers every call, isEvmScriptValid
\* returns true for a proposal that holds a script goEncodeEvmScript returned
\* and the fields decoded from it: the re-encoded bytes are the script.
Idempotence ==
    (valid.pc \in {"done", "threw"} /\ proposal.altered = "no" /\ rejections = 0)
        => valid.pc = "done" /\ valid.value

IsByteString(bytes) == \A i \in 1..Len(bytes) : bytes[i] \in 0..255

\* C3: goEncodeEvmScript is total.  A call that has ended has returned a
\* success with a byte string or a failure with one of the five fields, also
\* when the provider rejected a call; no exception has left it.
EncodeTotal ==
    enc.pc = "done"
        => /\ ~enc.result.escaped
           /\ IF enc.result.success
              THEN IsByteString(enc.result.data) /\ Len(enc.result.data) > 0
              ELSE enc.result.data \in Fields

\* The provider rejected the resolution of the target address, and the call
\* returned the failure of that field.
EncodeTotalWitness ==
    /\ enc.pc = "done"
    /\ rejections > 0
    /\ ~enc.result.success
    /\ enc.result.data = "targetAddress"

AgentBytes(type) == IF type = "primary" THEN Rep(51, 20) ELSE Rep(68, 20)

\* C4: wire layout.  A script that goEncodeEvmScript returned is the tag
\* 0x00000001, the 20 bytes of the agent of the form's type, a 4-byte
\* big-endian integer and the execute call data, which begins with the
\* selector of execute; the integer is the number of bytes after it, so the
\* script is 28 bytes and that integer long.
WireLayout ==
    (enc.pc = "done" /\ enc.result.success)
        => LET script == enc.result.data
           IN /\ Len(script) >= 32
              /\ SubSeq(script, 1, 4) = <<0, 0, 0, 1>>
              /\ SubSeq(script, 5, 24) = AgentBytes(enc.formData.type)
              /\ ((script[25] * 256 + script[26]) * 256 + script[27]) * 256 + script[28]
                    = Len(script) - 28
              /\ SubSeq(script, 29, 32) = <<182, 29, 39, 246>>

\* A script for the secondary agent has been returned.
WireLayoutWitness ==
    /\ enc.pc = "done"
    /\ enc.result.success
    /\ enc.formData.type = "secondary"
    /\ Len(enc.result.data) > 200

\* A decoded script with every field: the target address, the value, and a
\* value for each of the decoder's parameter types.
Complete(decoded, parameterTypes) ==
    /\ decoded.targetAddress.t = "str"
    /\ decoded.value.t = "bn"
    /\ Len(decoded.parameters) = Len(parameterTypes)
    /\ \A i \in 1..Len(decoded.parameters) : decoded.parameters[i].t \in {"str", "null"}

\* C5: decoding is all or nothing.  A decodeEvmScript call that has ended has
\* returned null or a decoded script with every field; it has returned null
\* when a step threw, and for a script shorter than the 28-byte header.
DecodeAllOrNothing ==
    dec.pc = "done"
        => /\ dec.failedAt # "none" => dec.result.isNull
           /\ Len(proposal.script) < 28 => dec.result.isNull
           /\ ~dec.result.isNull => Complete(dec.result, dec.parameterTypes)

\* The inner call's parameters did not decode after the target address and the
\* value had, and the call returned null.
DecodeAllOrNothingWitness ==
    /\ dec.pc = "done"
    /\ dec.failedAt = "decodedParameters"
    /\ dec.targetContractAddress.t = "str"
    /\ dec.result.isNull

\* The number of parameter types that a signature declares between its
\* parentheses.
DeclaredArity(signature) ==
    LET inside == SubSeq(signature, IndexOf(signature, "(") + 2, IndexOf(signature, ")"))
    IN IF inside = <<>> THEN 0
       ELSE Cardinality({i \in 1..Len(inside) : inside[i] = ","}) + 1

\* C6: arity check.  When the parameters are a JSON array and the signature is
\* well formed, and the array is not as long as the signature declares, the
\* call fails with the field parameters and returns no script.
ArityCheck ==
    (/\ enc.pc = "done"
     /\ Len(enc.steps) >= 3
     /\ Len(enc.targetParameters) # DeclaredArity(enc.formData.targetSignature))
        => ~enc.result.success /\ enc.result.data = "parameters"

\* A parameter was given for a function that declares none.
ArityCheckWitness ==
    /\ enc.pc = "done"
    /\ Len(enc.steps) >= 3
    /\ DeclaredArity(enc.formData.targetSignature) = 0
    /\ Len(enc.targetParameters) = 1
    /\ ~enc.result.success

\* The step of goEncodeEvmScript was run in the call.
Ran(step) == \E k \in 1..Len(enc.steps) : enc.steps[k] = step

IsDecimal(chars) ==
    LET digits == IF chars # <<>> /\ chars[1] = "-" THEN Tail(chars) ELSE chars
    IN digits # <<>> /\ \A k \in 1..Len(digits) : digits[k] \in Digits

IsNegative(chars) ==
    /\ IsDecimal(chars)
    /\ chars[1] = "-"
    /\ \E k \in 2..Len(chars) : chars[k] # "0"

IsHex(chars) ==
    /\ Len(chars) >= 2
    /\ SubSeq(chars, 1, 2) = HexPrefix
    /\ \A k \in 3..Len(chars) : chars[k] \in HexChars

\* The number is below 2^256: it has at most 32 bytes.
FitsUint256(chars) == Len(BigNumberFromString(chars).v.mag) <= 32

\* C7 as stated: value validation.  With all other fields valid the call fails
\* with the field targetValue when targetValue is negative or is not a base-10
\* integer, and succeeds when it is "0" or any other non-negative integer.
ValueValidation ==
    (enc.pc = "done" /\ Ran("goValue"))
        => IF IsDecimal(enc.formData.targetValue) /\ ~IsNegative(enc.formData.targetValue)
           THEN enc.result.success
           ELSE ~enc.result.success /\ enc.result.data = "targetValue"

\* C7 as amended: with all other fields valid the call fails with the field
\* targetValue when targetValue is a negative decimal integer or is neither a
\* decimal integer nor a 0x-prefixed hexadecimal string; it succeeds when
\* targetValue is a non-negative decimal integer or a 0x-prefixed hexadecimal
\* string below 2^256; and it fails with the field generic when that number is
\* 2^256 or more.
ValueValidationAmended ==
    (enc.pc = "done" /\ Ran("goValue"))
        => LET value == enc.formData.targetValue
           IN IF IsNegative(value) \/ ~(IsDecimal(value) \/ IsHex(value))
              THEN ~enc.result.success /\ enc.result.data = "targetValue"
              ELSE IF FitsUint256(value)
              THEN enc.result.success
              ELSE ~enc.result.success /\ enc.result.data = "generic"

\* A hexadecimal value was accepted, and a script returned.
ValueValidationWitness ==
    /\ enc.pc = "done"
    /\ Ran("goValue")
    /\ IsHex(enc.formData.targetValue)
    /\ enc.result.success

\* C8: isEvmScriptValid returns a boolean and does not throw.  It returns false
\* for a proposal without a decoded script and false when the re-encoding
\* failed, and true only when the re-encoding succeeded with the bytes of
\* proposal.script.
ValidityIsBoolean ==
    /\ valid.pc # "threw"
    /\ valid.value \in BOOLEAN
    /\ valid.pc = "done"
         => /\ proposal.decodedEvmScript.isNull => ~valid.value
            /\ (enc.caller = "isEvmScriptValid" /\ ~enc.result.success) => ~valid.value
            /\ valid.value => /\ enc.caller = "isEvmScriptValid"
                              /\ enc.result.success
                              /\ enc.result.data = proposal.script

\* The re-encoding succeeded with other bytes than the stored script's, and
\* isEvmScriptValid returned false.
ValidityIsBooleanWitness ==
    /\ valid.pc = "done"
    /\ ~valid.value
    /\ enc.caller = "isEvmScriptValid"
    /\ enc.result.success
    /\ enc.result.data # proposal.script

SameValue(a, b) == a.t = b.t /\ a.v = b.v

\* C9: fan-out order preservation.  While the callbacks of the parameters
\* settle, in any order, and after the last has settled, the array has at each
\* settled index the resolved value of the parameter at that index, and a
\* parameter of another type than address as it was; in the encoder and in the
\* decoder.
FanOutOrder ==
    /\ enc.pc \in {"parameters", "targetAddress"}
         => \A i \in 1..Len(enc.parameters) :
               IF i \in enc.pending
               THEN enc.parameters[i].t = "unset"
               ELSE SameValue(enc.parameters[i],
                              EncodeParameter(enc.parameterTypes, enc.targetParameters,
                                              i, FALSE).v)
    /\ dec.pc = "parameters"
         => \A i \in 1..Len(dec.parameters) :
               IF i \in dec.pending
               THEN dec.parameters[i].t = "unset"
               ELSE \E rejected \in BOOLEAN :
                       SameValue(dec.parameters[i],
                                 DecodeParameter(dec.parameterTypes, dec.decodedParameters,
                                                 i, rejected))

\* The second of two address parameters settled before the first, and all
\* have settled.
FanOutOrderWitness ==
    /\ enc.pc = "targetAddress"
    /\ enc.order = <<2, 1>>
    /\ enc.parameterTypes = <<TAddress, TAddress>>
    /\ enc.parameters[1] # enc.parameters[2]

\* C10: the decoder takes the parameter types from the metadata's signature as
\* the encoder did from the form's: with the signature of the form in the
\* metadata, the decoder's type list is the list the encoder used, the empty
\* list for a signature with nothing between its parentheses.
DecoderTypesAsEncoder ==
    (/\ dec.pc \in {"parameters", "done"}
     /\ dec.failedAt # "executionParameters"
     /\ proposal.altered # "signature")
        => dec.parameterTypes = formCall.parameterTypes

\* The steps of goEncodeEvmScript in the order of the claim, and the field each
\* reports.
StepOrder ==
    <<"goJsonParams", "goTargetSignature", "goExtractParameters", "goEncodeParameters",
      "goTargetAddress", "goValue", "goBuildEvmScript">>

StepField(step) ==
    CASE step = "goJsonParams"        -> "parameters"
      [] step = "goTargetSignature"   -> "targetSignature"
      [] step = "goExtractParameters" -> "parameters"
      [] step = "goEncodeParameters"  -> "parameters"
      [] step = "goTargetAddress"     -> "targetAddress"
      [] step = "goValue"             -> "targetValue"
      [] OTHER                        -> "generic"

\* What would fail of a form, each field looked at by itself.
JsonFails(data) == data.parameters = <<>> \/ data.parameters[1] # "["

SignatureFails(data) ==
    ~\E k \in 1..Len(data.targetSignature) : data.targetSignature[k] = ")"

ArityFails(data) ==
    /\ ~JsonFails(data)
    /\ Len(JSONparse(data.parameters).v.v) # DeclaredArity(data.targetSignature)

AddressFails(data) == ~isAddress(Canonical(Str(data.targetAddress)))

ValueFails(data) ==
    IsNegative(data.targetValue) \/ ~(IsDecimal(data.targetValue) \/ IsHex(data.targetValue))

\* The call ended with the failure of its n-th step, and ran no step after it.
FailedAtStep(n) ==
    /\ Len(enc.steps) = n
    /\ ~enc.result.success
    /\ enc.result.data = StepField(StepOrder[n])

\* C11: validation precedence.  The steps run in the order parameters JSON,
\* targetSignature, arity, parameter resolution and encoding, targetAddress,
\* targetValue, generic; a call that failed reports the field of the first step
\* that fails for its form and ran no step after it, whatever else of the form
\* would fail too; and the target address is with the resolver only when the
\* four steps before it have succeeded.
ValidationPrecedence ==
    /\ enc.steps = SubSeq(StepOrder, 1, Len(enc.steps))
    /\ enc.pc = "targetAddress"
         => /\ Len(enc.steps) = 4
            /\ ~JsonFails(enc.formData)
            /\ ~SignatureFails(enc.formData)
            /\ ~ArityFails(enc.formData)
    /\ enc.pc = "done"
         => LET data == enc.formData
            IN /\ ~enc.result.success => FailedAtStep(Len(enc.steps))
               /\ enc.result.success => Len(enc.steps) = Len(StepOrder)
               /\ JsonFails(data) => FailedAtStep(1)
               /\ (~JsonFails(data) /\ SignatureFails(data)) => FailedAtStep(2)
               /\ (~JsonFails(data) /\ ~SignatureFails(data) /\ ArityFails(data))
                     => FailedAtStep(3)
               /\ (Ran("goTargetAddress") /\ AddressFails(data)) => FailedAtStep(5)
               /\ (Ran("goValue") /\ ValueFails(data)) => FailedAtStep(6)

\* The target address and the value of a form both fail, and the call reported
\* the target address.
ValidationPrecedenceWitness ==
    /\ enc.pc = "done"
    /\ AddressFails(enc.formData)
    /\ ValueFails(enc.formData)
    /\ FailedAtStep(5)

\* The vote ids that the loaders of a type have passed to updateState.
Written(type) == loaders[type].new.written \cup loaders[type].old.written

\* C12: every chunk loaded for a voting type is written only into the
\* proposals of that type, under its vote id: the proposals stored under a
\* type are of that type, so that no secondary proposal is stored under
\* primary, and what the loaders of a type have written is stored under the
\* type, whatever the interleaving of the four loaders.
ChunksIntoTheirType ==
    proposals.loaded
        => \A type \in {"primary", "secondary"} :
              /\ \A number \in VoteNumbers :
                    proposals[type][number].present => proposals[type][number].type = type
              /\ \A number \in Written(type) :
                    /\ proposals[type][number].present
                    /\ proposals[type][number].from \in {"new", "updated"}

====
